---------------------------- MODULE Spec2Model ----------------------------
(***************************************************************************)
(* Model of hooks/bintray_updater.py: the Conan hook that, after a recipe  *)
(* upload, reads the package record from Bintray, reconciles it with the   *)
(* recipe's attributes and PATCHes the fields that are out of date.        *)
(*                                                                         *)
(* Python strings are sequences of one-character strings, so that regular  *)
(* expression matching, substring tests and slicing are computed the way   *)
(* the interpreter computes them.  Python values are tagged records.       *)
(***************************************************************************)
EXTENDS Integers, Sequences, FiniteSets, TLC

(***************************************************************************)
(* Bounds of the model.                                                    *)
(***************************************************************************)
MaxCalls == 2
MaxTopics == 2
MaxLicenses == 2

(***************************************************************************)
(* Python values.                                                          *)
(***************************************************************************)
None == [t |-> "None", v |-> <<>>]
Str(s) == [t |-> "str", v |-> s]
List(s) == [t |-> "list", v |-> s]
Tuple(s) == [t |-> "tuple", v |-> s]

\* bool(x) of a None, str, list or tuple value: "if description:".
Truthy(x) == x.t # "None" /\ Len(x.v) > 0

\* x == y: values of different types are never equal (a list is not a tuple).
PyEq(x, y) == x.t = y.t /\ x.v = y.v

\* isinstance(x, str)
IsStr(x) == x.t = "str"

\* set(x) of a str (its characters), a list or a tuple (its elements).
PySet(x) == IF x.t = "str" THEN {Str(<<x.v[i]>>) : i \in 1..Len(x.v)}
            ELSE {x.v[i] : i \in 1..Len(x.v)}

\* json round trip of a value (requests' json= body, response.json()):
\* a tuple comes back as a list.
Json(x) == IF x.t = "tuple" THEN List(x.v) ELSE x

\* dict: a function from the keys present to values.
EmptyDict == [k \in {} |-> None]
DictSet(d, k, x) == [kk \in DOMAIN d \cup {k} |-> IF kk = k THEN x ELSE d[kk]]
HasKey(d, k) == k \in DOMAIN d

(***************************************************************************)
(* Exceptions: a class and the parts of the message.  NoExc is "nothing    *)
(* raised".                                                                *)
(***************************************************************************)
Msg(text, args) == [text |-> text, args |-> args]
NoExc == [cls |-> "", msg |-> Msg("", <<>>)]
Exc(cls, msg) == [cls |-> cls, msg |-> msg]
Raised(r) == r.exc # NoExc
Ok(x) == [exc |-> NoExc, val |-> x]
Fail(cls, msg) == [exc |-> Exc(cls, msg), val |-> None]

\* Mutant: "except (ValueError, HTTPError)", the errors the helpers raise by name.
NamedErrorClasses == {"ValueError", "HTTPError"}

\* The classes derived from Exception, which "except Exception" catches.
ExceptionClasses == {"Exception", "ValueError", "TypeError", "KeyError",
                     "HTTPError", "ConanException", "re.error"}

\* d[k]: KeyError when the key is missing.
DictGet(d, k) == IF HasKey(d, k) THEN Ok(d[k]) ELSE Fail("KeyError", Msg(k, <<>>))

(***************************************************************************)
(* String operations.                                                      *)
(***************************************************************************)
\* sub in s
Contains(s, sub) ==
    \E i \in 0..(Len(s) - Len(sub)) :
        \A j \in 1..Len(sub) : s[i + j] = sub[j]

\* s.rfind(c) as a 0-based index, -1 when c does not occur.
RFind(s, c) ==
    LET at == {i \in 1..Len(s) : s[i] = c}
    IN IF at = {} THEN -1 ELSE (CHOOSE i \in at : \A j \in at : j <= i) - 1

\* s[:n] with Python's slice rule for a negative n.
SliceTo(s, n) ==
    LET stop == IF n < 0 THEN (IF Len(s) + n < 0 THEN 0 ELSE Len(s) + n)
                ELSE (IF n > Len(s) THEN Len(s) ELSE n)
    IN SubSeq(s, 1, stop)

\* s.startswith(p)
StartsWith(s, p) == Len(p) <= Len(s) /\ SubSeq(s, 1, Len(p)) = p

RECURSIVE LStrip(_)
LStrip(s) == IF s # <<>> /\ Head(s) = " " THEN LStrip(Tail(s)) ELSE s
RECURSIVE RStrip(_)
RStrip(s) == IF s # <<>> /\ s[Len(s)] = " " THEN RStrip(SubSeq(s, 1, Len(s) - 1)) ELSE s
\* s.strip()
Strip(s) == RStrip(LStrip(s))

\* s.replace(c, "", 1)
RemoveFirst(s, c) ==
    LET at == {i \in 1..Len(s) : s[i] = c}
    IN IF at = {} THEN s
       ELSE LET i == CHOOSE k \in at : \A j \in at : k <= j
            IN SubSeq(s, 1, i - 1) \o SubSeq(s, i + 1, Len(s))

\* A format string: its text and the number of "{}" and of "%s" fields in it.
Fmt(text, braces, percents) == [text |-> text, braces |-> braces, percents |-> percents]

\* fmt.format(*args): the "{}" fields take the arguments in order; arguments
\* left over are ignored, a field without an argument is an IndexError.
PyFormat(fmt, args) ==
    IF Len(args) < fmt.braces
    THEN Fail("IndexError", Msg("Replacement index out of range", <<>>))
    ELSE Ok(Msg(fmt.text, SubSeq(args, 1, fmt.braces)))

\* fmt % arg with one argument: the format must hold exactly one "%s".
PyPercent(fmt, arg) ==
    IF fmt.percents = 1 THEN Ok(Msg(fmt.text, <<arg>>))
    ELSE IF fmt.percents = 0
         THEN Fail("TypeError", Msg("not all arguments converted during string formatting", <<>>))
         ELSE Fail("TypeError", Msg("not enough arguments for format string", <<>>))

(***************************************************************************)
(* Regular expressions (the subset the hook uses): literals, ".", "$",     *)
(* "\x" escapes and the postfix quantifiers "*" and "?".                   *)
(***************************************************************************)
Quantifiers == {"*", "?"}

\* re.compile: the pattern's elements, or <<"error">> for a quantifier with
\* nothing to repeat.
RECURSIVE Compile(_)
Compile(p) ==
    IF p = <<>> THEN <<>>
    ELSE IF Head(p) \in Quantifiers THEN <<[k |-> "error", c |-> "", q |-> ""]>>
    ELSE LET esc  == Head(p) = "\\" /\ Len(p) >= 2
             atom == IF esc THEN [k |-> "lit", c |-> p[2]]
                     ELSE IF Head(p) = "." THEN [k |-> "any", c |-> ""]
                     ELSE IF Head(p) = "$" THEN [k |-> "end", c |-> ""]
                     ELSE [k |-> "lit", c |-> Head(p)]
             rest == IF esc THEN Tail(Tail(p)) ELSE Tail(p)
             quant == rest # <<>> /\ Head(rest) \in Quantifiers
         IN <<[k |-> atom.k, c |-> atom.c, q |-> IF quant THEN Head(rest) ELSE "1"]>>
            \o Compile(IF quant THEN Tail(rest) ELSE rest)

CompileFails(prog) == \E i \in 1..Len(prog) : prog[i].k = "error"

Accepts(e, s, i) ==
    /\ i <= Len(s)
    /\ e.k = "lit" => s[i] = e.c
    /\ e.k = "any" => s[i] # "\n"
    /\ e.k \in {"lit", "any"}

\* "$" matches at the end and before a newline that ends the string.
AtEnd(s, i) == i = Len(s) + 1 \/ (i = Len(s) /\ s[i] = "\n")

\* The positions at which a match of prog[j..] that starts at s[i] may end.
RECURSIVE MatchEnds(_, _, _, _)
MatchEnds(prog, j, s, i) ==
    IF j > Len(prog) THEN {i}
    ELSE LET e == prog[j]
             take(jn) == IF Accepts(e, s, i) THEN MatchEnds(prog, jn, s, i + 1) ELSE {}
         IN CASE e.k = "end" -> IF AtEnd(s, i) THEN MatchEnds(prog, j + 1, s, i) ELSE {}
              [] e.q = "1"   -> take(j + 1)
              [] e.q = "?"   -> take(j + 1) \cup MatchEnds(prog, j + 1, s, i)
              [] e.q = "*"   -> take(j) \cup MatchEnds(prog, j + 1, s, i)

\* prog.match(s) is not None
ReMatch(prog, s) == MatchEnds(prog, 1, s, 1) # {}

(***************************************************************************)
(* Text of the program.                                                    *)
(***************************************************************************)
BintrayUrlPrefix == <<"h","t","t","p","s","?",":","\\","/","\\","/","a","p","i",".","b","i","n","t","r","a","y",".","c","o","m","\\","/","c","o","n","a","n","\\","/">>
DefaultApiUrl == <<"h","t","t","p","s",":","/","/","a","p","i",".","b","i","n","t","r","a","y",".","c","o","m">>
S_https == <<"h","t","t","p","s">>
S_packages == <<"/","p","a","c","k","a","g","e","s","/">>
S_colon == <<"%","3","A">>
S_community == <<"/","c","o","m","m","u","n","i","t","y","/","i","s","s","u","e","s">>
S_Stable == <<"S","t","a","b","l","e">>
S_detached == <<" ","(","H","E","A","D"," ","d","e","t","a","c","h","e","d">>
P_master == <<"m","a","s","t","e","r","$">>
P_release == <<"r","e","l","e","a","s","e","*">>
P_stable == <<"s","t","a","b","l","e","*">>

Lowercase == <<"a","b","c","d","e","f","g","h","i","j","k","l","m",
               "n","o","p","q","r","s","t","u","v","w","x","y","z">>
Uppercase == <<"A","B","C","D","E","F","G","H","I","J","K","L","M",
               "N","O","P","Q","R","S","T","U","V","W","X","Y","Z">>
\* s.upper()
Upper(s) ==
    [i \in 1..Len(s) |->
        IF \E k \in 1..26 : Lowercase[k] = s[i]
        THEN Uppercase[CHOOSE k \in 1..26 : Lowercase[k] = s[i]]
        ELSE s[i]]

(***************************************************************************)
(* The process environment: a function from the names of the variables     *)
(* that are set to their values.  A name is a sequence whose first element *)
(* is the fixed part and whose rest is the characters appended to it.      *)
(***************************************************************************)
\* os.getenv(var)
Getenv(env, var) == IF var \in DOMAIN env THEN env[var] ELSE None
\* os.getenv(var, default)
GetenvOr(env, var, default) == IF var \in DOMAIN env THEN env[var] ELSE default

(***************************************************************************)
(* _extract_user_repo                                                      *)
(***************************************************************************)
NotBintrayFmt == Fmt("The remote {} is not a Bintray repository.", 1, 0)

\* re.match(pattern, remote.url): the greedy groups (.*)\/(.*) split what
\* follows the prefix, up to the end of its line, at its last "/".
UrlMatch(url) ==
    LET ends == MatchEnds(Compile(BintrayUrlPrefix), 1, url, 1)
    IN IF ends = {} THEN [ok |-> FALSE, g1 |-> <<>>, g2 |-> <<>>]
       ELSE LET p    == CHOOSE e \in ends : TRUE
                rest == SubSeq(url, p, Len(url))
                nl   == {k \in 1..Len(rest) : rest[k] = "\n"}
                line == IF nl = {} THEN rest
                        ELSE SubSeq(rest, 1, (CHOOSE k \in nl : \A j \in nl : k <= j) - 1)
                cut  == RFind(line, "/")
            IN IF cut < 0 THEN [ok |-> FALSE, g1 |-> <<>>, g2 |-> <<>>]
               ELSE [ok |-> TRUE, g1 |-> SubSeq(line, 1, cut),
                     g2 |-> SubSeq(line, cut + 2, Len(line))]

_extract_user_repo(remote) ==
    LET match == UrlMatch(remote.url)
    IN IF ~match.ok
       THEN LET text == PyPercent(NotBintrayFmt, remote.name)
            IN IF Raised(text) THEN text ELSE Fail("ValueError", text.val)
       ELSE Ok(<<match.g1, match.g2>>)

(***************************************************************************)
(* _get_bintray_package_url                                                *)
(***************************************************************************)
\* "{}/packages/{}/{}/{}".format(url, user, repo, package), given what
\* _extract_user_repo returned or raised.
PackageUrl(user_repo, reference, env) ==
    IF Raised(user_repo) THEN user_repo
    ELSE Ok(GetenvOr(env, <<"BINTRAY_API_URL">>, Str(DefaultApiUrl)).v
            \o S_packages \o user_repo.val[1] \o <<"/">> \o user_repo.val[2] \o <<"/">>
            \o reference.name \o S_colon \o reference.user)

_get_bintray_package_url(remote, reference, env) ==
    PackageUrl(_extract_user_repo(remote), reference, env)

(***************************************************************************)
(* _get_credentials                                                        *)
(***************************************************************************)
UsernameVars(remote_name) ==
    << <<"BINTRAY_LOGIN_USERNAME_">> \o remote_name,
       <<"BINTRAY_LOGIN_USERNAME">>,
       <<"BINTRAY_USERNAME">> >>

\* The for loop: the value read last, which is the first truthy one if any.
RECURSIVE FirstUsername(_, _)
FirstUsername(env, vars) ==
    LET username == Getenv(env, Head(vars))
    IN IF Truthy(username) \/ Len(vars) = 1 THEN username
       ELSE FirstUsername(env, Tail(vars))

_get_credentials(remote, env) ==
    LET remote_name == Upper(remote.name)
        username    == FirstUsername(env, UsernameVars(remote_name))
        password    == GetenvOr(env, <<"BINTRAY_PASSWORD_">> \o remote_name,
                                Getenv(env, <<"BINTRAY_PASSWORD">>))
    IN IF ~Truthy(username)
       THEN Fail("ValueError", Msg("Could not update Bintray info: username not found", <<>>))
       ELSE IF ~Truthy(password)
       THEN Fail("Exception", Msg("Could not update Bintray info: password not found", <<>>))
       ELSE Ok(<<username, password>>)

(***************************************************************************)
(* _get_branch                                                             *)
(***************************************************************************)
ci_manager ==
    << << <<"TRAVIS">>,             <<"TRAVIS_BRANCH">> >>,
       << <<"APPVEYOR">>,           <<"APPVEYOR_REPO_BRANCH">> >>,
       << <<"bamboo_buildNumber">>, <<"bamboo_planRepository_branch">> >>,
       << <<"JENKINS_URL">>,        <<"BRANCH_NAME">> >>,
       << <<"GITLAB_CI">>,          <<"CI_BUILD_REF_NAME">> >>,
       << <<"CIRCLECI">>,           <<"CIRCLE_BRANCH">> >> >>

\* The loop over "git branch --no-color"'s lines.
RECURSIVE GitCurrent(_)
GitCurrent(lines) ==
    IF lines = <<>> THEN None
    ELSE LET line == Strip(Head(lines))
         IN IF StartsWith(line, <<"*">>) /\ ~Contains(line, S_detached)
            THEN Str(Strip(RemoveFirst(line, "*")))
            ELSE GitCurrent(Tail(lines))

\* git: [ok, lines], ok false when the command fails.
RECURSIVE CiBranch(_, _, _)
CiBranch(env, git, cis) ==
    IF cis = <<>>
    THEN IF git.ok THEN GitCurrent(git.lines) ELSE None
    ELSE IF Truthy(Getenv(env, Head(cis)[1])) /\ Truthy(Getenv(env, Head(cis)[2]))
         THEN Getenv(env, Head(cis)[2])
         ELSE CiBranch(env, git, Tail(cis))

_get_branch(env, git) == CiBranch(env, git, ci_manager)

(***************************************************************************)
(* _is_stable_branch                                                       *)
(***************************************************************************)
\* Mutant: "master" without its "$".
UnanchoredStablePatterns == <<SubSeq(P_master, 1, Len(P_master) - 1), P_release, P_stable>>

DefaultStablePatterns == <<P_master, P_release, P_stable>>

RECURSIVE AnyPatternMatches(_, _)
AnyPatternMatches(stable_patterns, branch) ==
    IF stable_patterns = <<>> THEN Ok(FALSE)
    ELSE LET prog == Compile(Head(stable_patterns))
         IN IF CompileFails(prog)
            THEN Fail("re.error", Msg("nothing to repeat at position 0", <<>>))
            ELSE IF Truthy(branch) /\ ReMatch(prog, branch.v) THEN Ok(TRUE)
            ELSE AnyPatternMatches(Tail(stable_patterns), branch)

_is_stable_branch(branch, env) ==
    LET stable_branch_pattern == Getenv(env, <<"CONAN_STABLE_BRANCH_PATTERN">>)
        stable_patterns == IF Truthy(stable_branch_pattern)
                           THEN <<stable_branch_pattern.v>>
                           ELSE DefaultStablePatterns
    IN AnyPatternMatches(stable_patterns, branch)

(***************************************************************************)
(* _update_package_info.  Each stage takes the result so far (the dict     *)
(* being built, or the exception already raised) and returns the next.     *)
(***************************************************************************)
\* Mutant: the recipe's value is staged without a look at the remote's.
StageIfTruthy(acc, recipe_info, remote_info, attribute, field) ==
    IF Raised(acc) THEN acc
    ELSE IF ~HasKey(recipe_info, attribute) THEN Fail("KeyError", Msg(attribute, <<>>))
    ELSE IF ~Truthy(recipe_info[attribute]) THEN acc
    ELSE IF ~HasKey(remote_info, field) THEN Fail("KeyError", Msg(field, <<>>))
    ELSE Ok(DictSet(acc.val, field, recipe_info[attribute]))

\* The shape shared by description/desc, topics/labels and
\* homepage/website_url: stage the recipe's value if it is truthy and the
\* remote's differs.
StageIfDiffers(acc, recipe_info, remote_info, attribute, field) ==
    IF Raised(acc) THEN acc
    ELSE LET mine == DictGet(recipe_info, attribute)
         IN IF Raised(mine) THEN mine
            ELSE IF ~Truthy(mine.val) THEN acc
            ELSE LET theirs == DictGet(remote_info, field)
                 IN IF Raised(theirs) THEN theirs
                    ELSE IF ~PyEq(theirs.val, mine.val)
                         THEN Ok(DictSet(acc.val, field, mine.val))
                         ELSE acc

\* Mutant: a single string is not wrapped in a list.
StageLicensesRaw(acc, recipe_info, remote_info) ==
    IF Raised(acc) THEN acc
    ELSE IF ~Truthy(recipe_info["license"]) THEN acc
    ELSE IF remote_info["licenses"] = None
    THEN Fail("TypeError", Msg("'NoneType' object is not iterable", <<>>))
    ELSE IF PySet(recipe_info["license"]) \cap PySet(remote_info["licenses"]) = {}
         THEN Ok(DictSet(acc.val, "licenses", recipe_info["license"]))
         ELSE acc

StageLicenses(acc, recipe_info, remote_info) ==
    IF Raised(acc) THEN acc
    ELSE LET mine == DictGet(recipe_info, "license")
         IN IF Raised(mine) THEN mine
            ELSE IF ~Truthy(mine.val) THEN acc
            ELSE LET licenses == IF IsStr(mine.val) THEN List(<<mine.val>>) ELSE mine.val
                     theirs   == DictGet(remote_info, "licenses")
                 IN IF Raised(theirs) THEN theirs
                    ELSE IF theirs.val = None
                    THEN Fail("TypeError", Msg("'NoneType' object is not iterable", <<>>))
                    ELSE IF PySet(licenses) \cap PySet(theirs.val) = {}
                         THEN Ok(DictSet(acc.val, "licenses", licenses))
                         ELSE acc

StageVcsUrl(acc, recipe_info) ==
    IF Raised(acc) THEN acc
    ELSE LET url == DictGet(recipe_info, "url")
         IN IF Raised(url) THEN url
            ELSE IF Truthy(url.val) THEN Ok(DictSet(acc.val, "vcs_url", url.val))
            ELSE acc

\* "{}/community/issues".format(url[:url.rfind('/')]) if url else ""
DefaultIssueTracker(url) ==
    IF Truthy(url) THEN Str(SliceTo(url.v, RFind(url.v, "/")) \o S_community)
    ELSE Str(<<>>)

StageIssueTracker(acc, recipe_info, remote_info, env) ==
    IF Raised(acc) THEN acc
    ELSE LET url == recipe_info["url"]
             issue_tracker_url ==
                 GetenvOr(env, <<"BINTRAY_ISSUE_TRACKER_URL">>, DefaultIssueTracker(url))
         IN IF ~Truthy(issue_tracker_url) THEN acc
            ELSE LET theirs == DictGet(remote_info, "issue_tracker_url")
                 IN IF Raised(theirs) THEN theirs
                    ELSE IF ~PyEq(theirs.val, issue_tracker_url)
                         THEN Ok(DictSet(acc.val, "issue_tracker_url", issue_tracker_url))
                         ELSE acc

\* Mutant: "Stable" is staged on a stable branch whatever the remote holds.
StageMaturityAlways(acc, remote_info, env, git) ==
    IF Raised(acc) THEN acc
    ELSE IF Raised(_is_stable_branch(_get_branch(env, git), env))
    THEN _is_stable_branch(_get_branch(env, git), env)
    ELSE IF _is_stable_branch(_get_branch(env, git), env).val
         THEN Ok(DictSet(acc.val, "maturity", Str(S_Stable)))
         ELSE acc

StageMaturity(acc, remote_info, env, git) ==
    IF Raised(acc) THEN acc
    ELSE LET stable == _is_stable_branch(_get_branch(env, git), env)
         IN IF Raised(stable) THEN stable
            ELSE IF stable.val /\ (~HasKey(remote_info, "maturity")
                                   \/ ~PyEq(remote_info["maturity"], Str(S_Stable)))
                 THEN Ok(DictSet(acc.val, "maturity", Str(S_Stable)))
                 ELSE acc

_update_package_info(recipe_info, remote_info, env, git) ==
    LET s1 == StageIfDiffers(Ok(EmptyDict), recipe_info, remote_info, "description", "desc")
        s2 == StageIfDiffers(s1, recipe_info, remote_info, "topics", "labels")
        s3 == StageLicenses(s2, recipe_info, remote_info)
        s4 == StageVcsUrl(s3, recipe_info)
        s5 == StageIssueTracker(s4, recipe_info, remote_info, env)
        s6 == StageMaturity(s5, remote_info, env, git)
    IN StageIfDiffers(s6, recipe_info, remote_info, "homepage", "website_url")

(***************************************************************************)
(* State.  The world the hook runs in (env, git, remote, reference,        *)
(* conanfile, bintray), the locals of post_upload_recipe and the position  *)
(* in it (pc), and what a caller can observe: the lines written to the     *)
(* output, the requests made and the exception that left the hook.         *)
(***************************************************************************)
VARIABLES
    env,          \* os.environ
    git,          \* what "git branch --no-color" yields: [ok, lines]
    remote,       \* the Conan remote object: [name, url]
    conanfile,    \* what inspecting conanfile_path yields: [ok, info]
    bintray,      \* the package record the Bintray service holds
    pc,           \* position in the function under way
    package_url,  \* local of post_upload_recipe
    remote_info,  \* local of post_upload_recipe
    recipe_info,  \* local of post_upload_recipe
    updated_info, \* local of post_upload_recipe
    auth,         \* username, password of _patch_bintray_package_info
    out,          \* the lines written to output: [level, msg]
    events,       \* the requests and helper results of the current call
    error,        \* the exception a helper raised in the current call
    raised,       \* the exception that propagated to the hook's caller
    calls,        \* number of calls of the hook so far
    fn,           \* the helper applied on its own
    branch,       \* argument of _is_stable_branch applied on its own
    ret           \* what the helper applied on its own returned

world == <<env, git, remote, conanfile>>
locals == <<package_url, remote_info, recipe_info, updated_info, auth>>
observed == <<out, events, error, raised>>
unit == <<fn, branch, ret>>
vars == <<world, bintray, pc, locals, observed, calls, unit>>

reference == [name |-> <<"p">>, user |-> <<"u">>]

Info(text, args) == [level |-> "info", msg |-> Msg(text, args)]
ErrorLine(e) == [level |-> "error", msg |-> e.msg]

\* The keys of updated_info in the order the reconciler inserts them.
KeyOrder == <<"desc", "labels", "licenses", "vcs_url", "issue_tracker_url",
              "maturity", "website_url">>
RECURSIVE KeysFrom(_, _)
KeysFrom(d, order) ==
    IF order = <<>> THEN <<>>
    ELSE (IF Head(order) \in DOMAIN d THEN <<Head(order)>> ELSE <<>>)
         \o KeysFrom(d, Tail(order))
Keys(d) == KeysFrom(d, KeyOrder)

\* "except Exception as error: output.error(str(error))": an exception of a
\* class derived from Exception is logged and swallowed, any other leaves.
Catch(e) ==
    /\ error' = e
    /\ IF e.cls \in ExceptionClasses
       THEN out' = Append(out, ErrorLine(e)) /\ raised' = raised
       ELSE out' = out /\ raised' = e
    /\ pc' = "done"

\* The hook is called: locals are fresh, nothing is observed yet.
Call ==
    /\ pc = "idle"
    /\ calls < MaxCalls
    /\ calls' = calls + 1
    /\ pc' = "url"
    /\ package_url' = <<>>
    /\ remote_info' = EmptyDict
    /\ recipe_info' = EmptyDict
    /\ updated_info' = EmptyDict
    /\ auth' = <<>>
    /\ out' = <<>>
    /\ events' = <<>>
    /\ error' = NoExc
    /\ raised' = NoExc
    /\ UNCHANGED <<world, bintray, unit>>

\* package_url = _get_bintray_package_url(...); output.info("Reading ...")
AfterGetUrl(r) ==
    IF Raised(r)
    THEN Catch(r.exc) /\ UNCHANGED <<package_url, events>>
    ELSE /\ package_url' = r.val
         /\ out' = Append(out, Info("Reading package info form Bintray...", <<>>))
         /\ pc' = "get"
         /\ UNCHANGED <<events, error, raised>>

GetUrl ==
    /\ pc = "url"
    /\ AfterGetUrl(_get_bintray_package_url(remote, reference, env))
    /\ UNCHANGED <<world, bintray, remote_info, recipe_info, updated_info, auth, calls, unit>>

\* What the service may answer to the GET.
GetResponses ==
    {[ok |-> TRUE,  status_code |-> <<"2","0","0">>, text |-> <<>>],
     [ok |-> FALSE, status_code |-> <<"4","0","4">>, text |-> <<"n","o">>]}

CouldNotRequestFmt == Fmt("Could not request package info: {} ({})", 2, 0)

\* _get_package_info_from_bintray(package_url) on a response.
_get_package_info_from_bintray(response, record) ==
    IF ~response.ok
    THEN Fail("HTTPError",
              PyFormat(CouldNotRequestFmt, <<response.text, response.status_code>>).val)
    ELSE Ok(record)

\* remote_info = _get_package_info_from_bintray(...); output.info("Inspecting ...")
AfterRead(r) ==
    IF Raised(r)
    THEN /\ Catch(r.exc)
         /\ events' = Append(events, "GET")
         /\ UNCHANGED remote_info
    ELSE /\ remote_info' = r.val
         /\ events' = events \o <<"GET", "GET_OK">>
         /\ out' = Append(out, Info("Inspecting recipe info ...", <<>>))
         /\ pc' = "inspect"
         /\ UNCHANGED <<error, raised>>

ReadBintray ==
    /\ pc = "get"
    /\ \E response \in GetResponses :
          AfterRead(_get_package_info_from_bintray(response, bintray))
    /\ UNCHANGED <<world, bintray, package_url, recipe_info, updated_info, auth, calls, unit>>

\* _get_package_info_from_recipe(conanfile_path): Conan's inspect.
_get_package_info_from_recipe(file) ==
    IF file.ok THEN Ok(file.info)
    ELSE Fail("ConanException", Msg("Unable to load conanfile", <<>>))

AfterInspect(r) ==
    IF Raised(r)
    THEN Catch(r.exc) /\ UNCHANGED <<recipe_info, events>>
    ELSE /\ recipe_info' = r.val
         /\ events' = Append(events, "INSPECTED")
         /\ pc' = "update"
         /\ UNCHANGED <<out, error, raised>>

InspectRecipe ==
    /\ pc = "inspect"
    /\ AfterInspect(_get_package_info_from_recipe(conanfile))
    /\ UNCHANGED <<world, bintray, package_url, remote_info, updated_info, auth, calls, unit>>

\* updated_info = _update_package_info(...); if updated_info: ... else: ...
\* Mutant: the write is attempted whatever the payload holds.
AfterUpdateAlwaysPatch(r) ==
    IF Raised(r)
    THEN Catch(r.exc) /\ UNCHANGED <<updated_info, events>>
    ELSE /\ updated_info' = r.val
         /\ events' = Append(events, "RECONCILED")
         /\ out' = Append(out, Info("Bintray is outdated. Updating Bintray package info: {}",
                                    Keys(r.val)))
         /\ pc' = "patch"
         /\ UNCHANGED <<error, raised>>

AfterUpdate(r) ==
    IF Raised(r)
    THEN Catch(r.exc) /\ UNCHANGED <<updated_info, events>>
    ELSE /\ updated_info' = r.val
         /\ events' = Append(events, "RECONCILED")
         /\ IF r.val # EmptyDict
            THEN /\ out' = Append(out, Info("Bintray is outdated. Updating Bintray package info: {}",
                                            Keys(r.val)))
                 /\ pc' = "patch"
            ELSE /\ out' = Append(out, Info("Bintray package info is up-to-date.", <<>>))
                 /\ pc' = "done"
         /\ UNCHANGED <<error, raised>>

Reconcile ==
    /\ pc = "update"
    /\ AfterUpdate(_update_package_info(recipe_info, remote_info, env, git))
    /\ UNCHANGED <<world, bintray, package_url, remote_info, recipe_info, auth, calls, unit>>

\* _patch_bintray_package_info: if 'https' not in package_url: raise ValueError
HttpsAllowed(url) == Contains(url, S_https)

PatchCheckUrl ==
    /\ pc = "patch"
    /\ IF ~HttpsAllowed(package_url)
       THEN Catch(Exc("ValueError",
                      Msg("Bad package URL: Only HTTPS is allowed, Bintray API uses Basic Auth", <<>>)))
       ELSE pc' = "credentials" /\ UNCHANGED <<out, error, raised>>
    /\ events' = Append(events, "PATCH_CALL")
    /\ UNCHANGED <<world, bintray, locals, calls, unit>>

\* _patch_bintray_package_info: username, password = _get_credentials(remote)
AfterCredentials(r) ==
    IF Raised(r)
    THEN Catch(r.exc) /\ UNCHANGED auth
    ELSE auth' = r.val /\ pc' = "send" /\ UNCHANGED <<out, error, raised>>

PatchCredentials ==
    /\ pc = "credentials"
    /\ events' = Append(events, "CREDENTIALS")
    /\ AfterCredentials(_get_credentials(remote, env))
    /\ UNCHANGED <<world, bintray, package_url, remote_info, recipe_info, updated_info, calls, unit>>

\* The service applies a PATCH: the fields of the JSON body replace its own.
Patched(record, package_info) ==
    [k \in DOMAIN record \cup DOMAIN package_info |->
        IF k \in DOMAIN package_info THEN Json(package_info[k]) ELSE record[k]]

PatchResponses ==
    {[ok |-> TRUE, text |-> <<>>], [ok |-> FALSE, text |-> <<"n","o">>]}

CouldNotPatchFmt == Fmt("Could not patch package info: {}", 1, 0)

\* _patch_bintray_package_info: requests.patch(...) and the check of its response
PatchSend ==
    /\ pc = "send"
    /\ \E response \in PatchResponses :
        IF ~response.ok
        THEN /\ Catch(Exc("HTTPError", PyFormat(CouldNotPatchFmt, <<response.text>>).val))
             /\ events' = Append(events, "PATCH")
             /\ UNCHANGED bintray
        ELSE /\ bintray' = Patched(bintray, updated_info)
             /\ events' = events \o <<"PATCH", "PATCH_OK">>
             /\ pc' = "done"
             /\ UNCHANGED <<out, error, raised>>
    /\ UNCHANGED <<world, locals, calls, unit>>

\* post_upload_recipe returns (or the exception leaves it).
Return ==
    /\ pc = "done"
    /\ pc' = "idle"
    /\ UNCHANGED <<world, bintray, locals, observed, calls, unit>>

(***************************************************************************)
(* The reconciler and the helpers applied on their own.                    *)
(***************************************************************************)
\* updated_info = _update_package_info(recipe_info, remote_info)
ReconcileOnce ==
    /\ pc = "u0"
    /\ ret' = _update_package_info(recipe_info, remote_info, env, git)
    /\ pc' = "u1"
    /\ UNCHANGED <<world, bintray, locals, observed, calls, fn, branch>>

\* The payload is written into the remote record: remote_info.update(updated_info)
WriteBack ==
    /\ pc = "u1"
    /\ ~Raised(ret)
    /\ updated_info' = ret.val
    /\ remote_info' = [k \in DOMAIN remote_info \cup DOMAIN ret.val |->
                          IF k \in DOMAIN ret.val THEN ret.val[k] ELSE remote_info[k]]
    /\ pc' = "u2"
    /\ UNCHANGED <<world, bintray, package_url, recipe_info, auth, observed, calls, unit>>

\* The same recipe, branch and environment are reconciled with the record written.
ReconcileAgain ==
    /\ pc = "u2"
    /\ ret' = _update_package_info(recipe_info, remote_info, env, git)
    /\ pc' = "u3"
    /\ UNCHANGED <<world, bintray, locals, observed, calls, fn, branch>>

ApplyExtractUserRepo ==
    /\ pc = "unit" /\ fn = "_extract_user_repo"
    /\ ret' = _extract_user_repo(remote)
    /\ pc' = "returned"
    /\ UNCHANGED <<world, bintray, locals, observed, calls, fn, branch>>

ApplyGetCredentials ==
    /\ pc = "unit" /\ fn = "_get_credentials"
    /\ ret' = _get_credentials(remote, env)
    /\ pc' = "returned"
    /\ UNCHANGED <<world, bintray, locals, observed, calls, fn, branch>>

ApplyIsStableBranch ==
    /\ pc = "unit" /\ fn = "_is_stable_branch"
    /\ ret' = _is_stable_branch(branch, env)
    /\ pc' = "returned"
    /\ UNCHANGED <<world, bintray, locals, observed, calls, fn, branch>>

ApplyGetBranch ==
    /\ pc = "unit" /\ fn = "_get_branch"
    /\ ret' = Ok(_get_branch(env, git))
    /\ pc' = "returned"
    /\ UNCHANGED <<world, bintray, locals, observed, calls, fn, branch>>

(***************************************************************************)
(* Inputs.                                                                 *)
(***************************************************************************)
RECURSIVE SeqsUpTo(_, _)
SeqsUpTo(S, n) ==
    IF n = 0 THEN {<<>>}
    ELSE LET shorter == SeqsUpTo(S, n - 1)
         IN shorter \cup {Append(q, e) : q \in {r \in shorter : Len(r) = n - 1}, e \in S}

NoEnv == [v \in {} |-> None]
Set1(var, value) == var :> Str(value)

\* Remotes
U_ok == <<"h","t","t","p","s",":","/","/","a","p","i",".","b","i","n","t","r","a","y",".","c","o","m","/","c","o","n","a","n","/","o","/","r">>
U_owner == <<"h","t","t","p","s",":","/","/","a","p","i",".","b","i","n","t","r","a","y",".","c","o","m","/","c","o","n","a","n","/","h","t","t","p","s","/","r">>
U_plain == <<"h","t","t","p",":","/","/","a","p","i",".","b","i","n","t","r","a","y",".","c","o","m","/","c","o","n","a","n","/","o","/","r">>
U_dots == <<"h","t","t","p","s",":","/","/","a","p","i","X","b","i","n","t","r","a","y","X","c","o","m","/","c","o","n","a","n","/","o","/","r","/","s">>
U_other == <<"h","t","t","p","s",":","/","/","e","x","a","m","p","l","e",".","c","o","m","/","o","/","r">>
U_norepo == <<"h","t","t","p","s",":","/","/","a","p","i",".","b","i","n","t","r","a","y",".","c","o","m","/","c","o","n","a","n","/","o">>
A_http == <<"h","t","t","p",":","/","/","h">>
RemoteNames == {<<"b","t">>, <<"B","t">>, <<"x">>}
RemoteUrls == {U_ok, U_owner, U_plain, U_dots, U_other, U_norepo}

\* Branches
B_master == <<"m","a","s","t","e","r">>
B_masterNl == <<"m","a","s","t","e","r","\n">>
B_masterful == <<"m","a","s","t","e","r","f","u","l">>
B_release2 == <<"r","e","l","e","a","s","e","-","2",".","0">>
B_releas == <<"r","e","l","e","a","s">>
B_releaseX == <<"r","e","l","e","a","s","e","X","-","f","o","o">>
B_stable == <<"s","t","a","b","l","e">>
B_stabl == <<"s","t","a","b","l">>
B_stab == <<"s","t","a","b">>
B_develop == <<"d","e","v","e","l","o","p">>
B_mymaster == <<"m","y","-","m","a","s","t","e","r">>
B_rel == <<"r","e","l","e","a","s","e">>
Branches == {None, Str(<<>>)} \cup
    {Str(b) : b \in {B_master, B_masterNl, B_masterful, B_release2, B_releas, B_releaseX,
                     B_stable, B_stabl, B_stab, B_develop, B_mymaster, B_rel}}
PatternEnvs ==
    {NoEnv} \cup {Set1(<<"CONAN_STABLE_BRANCH_PATTERN">>, pattern) :
                    pattern \in {<<>>, <<"d","e","v",".","*">>, <<"*">>}}

\* git branch --no-color
G_master == <<"*"," ","m","a","s","t","e","r">>
G_develop == <<"*"," ","d","e","v","e","l","o","p">>
G_dev == <<" "," ","d","e","v","e","l","o","p">>
G_det == <<"*"," ","(","H","E","A","D"," ","d","e","t","a","c","h","e","d"," ","a","t"," ","1","a","2","b","3","c",")">>
GitFails == [ok |-> FALSE, lines |-> <<>>]
GitOn(lines) == [ok |-> TRUE, lines |-> lines]
Gits == {GitFails, GitOn(<<G_dev, G_master>>), GitOn(<<G_develop>>), GitOn(<<G_det, G_dev>>)}
CiEnvs ==
    {NoEnv,
     Set1(<<"TRAVIS">>, <<"1">>),
     Set1(<<"TRAVIS">>, <<"1">>) @@ Set1(<<"TRAVIS_BRANCH">>, B_release2),
     Set1(<<"TRAVIS">>, <<"1">>) @@ Set1(<<"TRAVIS_BRANCH">>, <<>>),
     Set1(<<"CIRCLECI">>, <<"1">>) @@ Set1(<<"CIRCLE_BRANCH">>, B_develop)
        @@ Set1(<<"JENKINS_URL">>, <<"j">>) @@ Set1(<<"BRANCH_NAME">>, B_stable),
     Set1(<<"GITLAB_CI">>, <<"1">>) @@ Set1(<<"CI_BUILD_REF_NAME">>, B_master)}

\* Credentials: each variable is unset, set to "" or set to a value.
CredVars == {<<"BINTRAY_LOGIN_USERNAME_","B","T">>, <<"BINTRAY_LOGIN_USERNAME">>,
             <<"BINTRAY_USERNAME">>, <<"BINTRAY_PASSWORD_","B","T">>, <<"BINTRAY_PASSWORD">>}
CredValue(var) ==
    CASE var = <<"BINTRAY_LOGIN_USERNAME_","B","T">> -> <<"u","1">>
      [] var = <<"BINTRAY_LOGIN_USERNAME">>          -> <<"u","2">>
      [] var = <<"BINTRAY_USERNAME">>                -> <<"u","3">>
      [] var = <<"BINTRAY_PASSWORD_","B","T">>       -> <<"p","1">>
      [] OTHER                                       -> <<"p","2">>
CredEnvs ==
    {[var \in {w \in CredVars : a[w] # "unset"} |->
         IF a[var] = "empty" THEN Str(<<>>) ELSE Str(CredValue(var))] :
     a \in [CredVars -> {"unset", "empty", "set"}]}

\* Recipe attributes and remote records
R_url == <<"h","t","t","p","s",":","/","/","x","/","y">>
R_noslash == <<"x","y">>
R_trail == <<"h","/","y","/">>
R_issue == <<"h","t","t","p","s",":","/","/","x","/","c","o","m","m","u","n","i","t","y","/","i","s","s","u","e","s">>
R_home == <<"h","t","t","p","s",":","/","/","x">>
R_track == <<"h","t","t","p","s",":","/","/","t">>
Texts == {None, Str(<<>>), Str(<<"d">>)}
Words == {Str(<<"a">>), Str(<<"b">>)}
LicenseNames == {Str(<<"M","I","T">>), Str(<<"M">>)}

Recipe(description, topics, license, url, homepage) ==
    [description |-> description, topics |-> topics, license |-> license,
     url |-> url, homepage |-> homepage]
Record(desc, labels, licenses, issue_tracker_url, website_url) ==
    [desc |-> desc, labels |-> labels, licenses |-> licenses, vcs_url |-> None,
     issue_tracker_url |-> issue_tracker_url, maturity |-> None, website_url |-> website_url]
BaseRecipe == Recipe(None, None, None, None, None)
BaseRecord == Record(None, List(<<>>), List(<<>>), None, None)
\* The record without its "maturity" key, and with each value of it.
MaturityVariants(record) ==
    {[k \in DOMAIN record \ {"maturity"} |-> record[k]]}
        \cup {[record EXCEPT !["maturity"] = m] :
                 m \in {None, Str(S_Stable), Str(<<"O","f","f","i","c","i","a","l">>)}}
\* A record that lacks a field the reconciler reads.
Malformed == [k \in DOMAIN BaseRecord \ {"desc", "issue_tracker_url"} |-> BaseRecord[k]]

TopicValues ==
    {None} \cup {List(q) : q \in SeqsUpTo(Words, MaxTopics)}
           \cup {Tuple(q) : q \in SeqsUpTo(Words, MaxTopics)}
LabelValues == {List(q) : q \in SeqsUpTo(Words, MaxTopics)}
LicenseValues ==
    {None, Str(<<>>)} \cup LicenseNames
        \cup {List(q) : q \in SeqsUpTo(LicenseNames, MaxLicenses)}
        \cup {Tuple(q) : q \in SeqsUpTo(LicenseNames, MaxLicenses)}
LicensesValues == {None} \cup {List(q) : q \in SeqsUpTo(LicenseNames, MaxLicenses)}
UrlValues == {None, Str(<<>>), Str(R_noslash), Str(R_trail), Str(R_url)}
TrackerEnvs == {NoEnv, Set1(<<"BINTRAY_ISSUE_TRACKER_URL">>, <<>>),
                Set1(<<"BINTRAY_ISSUE_TRACKER_URL">>, R_track)}

(***************************************************************************)
(* Initial states and specifications.                                      *)
(***************************************************************************)
NoCall ==
    /\ package_url = <<>>
    /\ updated_info = EmptyDict
    /\ auth = <<>>
    /\ out = <<>>
    /\ events = <<>>
    /\ error = NoExc
    /\ raised = NoExc
    /\ calls = 0

\* The hook in a world: a remote, an environment, a recipe file, a record
\* held by the service and a working copy.
HookRemotes == {[name |-> <<"b","t">>, url |-> u] : u \in {U_ok, U_owner, U_other}}
HookEnvs ==
    {api @@ creds :
        api \in {NoEnv, Set1(<<"BINTRAY_API_URL">>, A_http)},
        creds \in {NoEnv,
                   Set1(<<"BINTRAY_USERNAME">>, <<"u","3">>),
                   Set1(<<"BINTRAY_USERNAME">>, <<"u","3">>) @@ Set1(<<"BINTRAY_PASSWORD">>, <<"p","2">>),
                   Set1(<<"BINTRAY_LOGIN_USERNAME">>, <<"u","2">>)
                      @@ Set1(<<"BINTRAY_PASSWORD_","B","T">>, <<>>)
                      @@ Set1(<<"BINTRAY_PASSWORD">>, <<"p","2">>)}}
Conanfiles ==
    {[ok |-> FALSE, info |-> EmptyDict]} \cup
    {[ok |-> TRUE, info |-> r] :
        r \in {BaseRecipe,
               Recipe(None, None, None, Str(R_url), None),
               Recipe(Str(<<"d">>), Tuple(<<Str(<<"a">>)>>), Str(<<"M">>), None, Str(R_home))}}
Services == {BaseRecord, Malformed}

Init ==
    /\ remote \in HookRemotes
    /\ env \in HookEnvs
    /\ conanfile \in Conanfiles
    /\ bintray \in Services
    /\ git \in {GitFails, GitOn(<<G_dev, G_master>>)}
    /\ pc = "idle"
    /\ remote_info = EmptyDict
    /\ recipe_info = EmptyDict
    /\ NoCall
    /\ fn = "" /\ branch = None /\ ret = Ok(None)

Next ==
    \/ Call
    \/ GetUrl
    \/ ReadBintray
    \/ InspectRecipe
    \/ Reconcile
    \/ PatchCheckUrl
    \/ PatchCredentials
    \/ PatchSend
    \/ Return

Spec == Init /\ [][Next]_vars

\* The reconciler on its own.  Its inputs come in families: the fields that
\* are compared for equality, the licenses, the URL with the issue tracker
\* and the maturity, and whole records with every field absent or present.
PlainInputs ==
    {<<Recipe(description, topics, None, None, homepage),
       Record(desc, labels, List(<<>>), None, website_url), NoEnv, GitFails>> :
        description \in Texts, topics \in TopicValues, homepage \in {None, Str(R_home)},
        desc \in {None, Str(<<"d">>)}, labels \in LabelValues,
        website_url \in {None, Str(R_home)}}
LicenseInputs ==
    {<<Recipe(None, None, license, None, None),
       Record(None, List(<<>>), licenses, None, None), NoEnv, GitFails>> :
        license \in LicenseValues, licenses \in LicensesValues}
UrlInputs ==
    {<<Recipe(None, None, None, url, None), record, tracker @@ e, g>> :
        url \in UrlValues,
        record \in UNION {MaturityVariants(Record(None, List(<<>>), List(<<>>), issue, None)) :
                            issue \in {None, Str(R_issue), Str(R_track)}},
        tracker \in TrackerEnvs,
        e \in PatternEnvs \cup {Set1(<<"TRAVIS">>, <<"1">>) @@ Set1(<<"TRAVIS_BRANCH">>, B_release2)},
        g \in {GitFails, GitOn(<<G_dev, G_master>>)}}
WholeInputs ==
    {<<Recipe(description, topics, license, url, homepage), record, tracker, g>> :
        description \in {None, Str(<<"d">>)},
        topics \in {None, Tuple(<<Str(<<"a">>)>>)},
        license \in {None, Str(<<"M">>)},
        url \in {None, Str(R_url)},
        homepage \in {None, Str(R_home)},
        record \in {BaseRecord, Malformed,
                    Record(Str(<<"d">>), List(<<Str(<<"a">>)>>), List(<<Str(<<"M">>)>>),
                           Str(R_issue), Str(R_home))},
        tracker \in {NoEnv, Set1(<<"BINTRAY_ISSUE_TRACKER_URL">>, R_track)},
        g \in {GitFails, GitOn(<<G_dev, G_master>>)}}

InitUpdate ==
    /\ \E input \in PlainInputs \cup LicenseInputs \cup UrlInputs \cup WholeInputs :
        /\ recipe_info = input[1]
        /\ remote_info = input[2]
        /\ env = input[3]
        /\ git = input[4]
    /\ remote = [name |-> <<"b","t">>, url |-> U_ok]
    /\ conanfile = [ok |-> TRUE, info |-> recipe_info]
    /\ bintray = remote_info
    /\ pc = "u0"
    /\ NoCall
    /\ fn = "_update_package_info" /\ branch = None /\ ret = Ok(None)

NextUpdate ==
    \/ ReconcileOnce
    \/ WriteBack
    \/ ReconcileAgain

SpecUpdate == InitUpdate /\ [][NextUpdate]_vars

\* The helpers on their own, each on the inputs it reads.
InitUnits ==
    /\ \/ /\ fn = "_extract_user_repo"
          /\ remote \in {[name |-> n, url |-> u] : n \in RemoteNames, u \in RemoteUrls}
          /\ env = NoEnv /\ git = GitFails /\ branch = None
       \/ /\ fn = "_get_credentials"
          /\ remote \in {[name |-> n, url |-> U_ok] : n \in RemoteNames}
          /\ env \in CredEnvs
          /\ git = GitFails /\ branch = None
       \/ /\ fn = "_is_stable_branch"
          /\ branch \in Branches
          /\ env \in PatternEnvs
          /\ remote = [name |-> <<"b","t">>, url |-> U_ok] /\ git = GitFails
       \/ /\ fn = "_get_branch"
          /\ env \in CiEnvs
          /\ git \in Gits
          /\ remote = [name |-> <<"b","t">>, url |-> U_ok] /\ branch = None
    /\ conanfile = [ok |-> TRUE, info |-> BaseRecipe]
    /\ bintray = BaseRecord
    /\ pc = "unit"
    /\ remote_info = EmptyDict
    /\ recipe_info = EmptyDict
    /\ NoCall
    /\ ret = Ok(None)

NextUnits ==
    \/ ApplyExtractUserRepo
    \/ ApplyGetCredentials
    \/ ApplyIsStableBranch
    \/ ApplyGetBranch

SpecUnits == InitUnits /\ [][NextUnits]_vars

\* The hook and the reconciler on its own, side by side.
SpecSync == (Init \/ InitUpdate) /\ [][Next \/ NextUpdate]_vars

(***************************************************************************)
(* Properties.                                                             *)
(***************************************************************************)
Happened(e) == \E i \in 1..Len(events) : events[i] = e
Count(e) == Cardinality({i \in 1..Len(events) : events[i] = e})
Before(a, b) == \E i, j \in 1..Len(events) : i < j /\ events[i] = a /\ events[j] = b
ErrorLines == {i \in 1..Len(out) : out[i].level = "error"}
SaysUpToDate == \E i \in 1..Len(out) : out[i].msg.text = "Bintray package info is up-to-date."
Returned(f) == fn = f /\ pc = "returned"
Reconciled == pc = "u1" /\ ~Raised(ret)
IsSet(var) == var \in DOMAIN env
NonEmpty(var) == IsSet(var) /\ Truthy(env[var])

\* C1: post_upload_recipe never lets an exception reach its caller; a call in
\* which a step failed ends with exactly one error line, the failure's
\* message, and a call in which none failed writes no error line.
C1_NeverPropagates ==
    /\ raised = NoExc
    /\ error = NoExc => ErrorLines = {}
    /\ error # NoExc =>
          /\ pc \in {"done", "idle"}
          /\ ErrorLines = {Len(out)}
          /\ out[Len(out)] = ErrorLine(error)

\* C1 witness: a call ended by a PATCH that the service refused.
C1_Witness ==
    pc = "done" /\ error.cls = "HTTPError" /\ Happened("PATCH") /\ Cardinality(ErrorLines) = 1

\* C2: a package URL whose scheme is not HTTPS is refused before credentials
\* are resolved and before a PATCH is issued.
HasHttpsScheme(url) == StartsWith(url, S_https \o <<":", "/", "/">>)
C2_RefusesNonHttps ==
    ~HasHttpsScheme(package_url) => ~Happened("CREDENTIALS") /\ ~Happened("PATCH")

\* C3: a PATCH is issued only after, in the same call, the GET succeeded, the
\* recipe was inspected and the reconciler returned a non-empty payload; with
\* an empty payload neither credentials are resolved nor a PATCH issued; a
\* call issues at most one GET and at most one PATCH.
C3_PatchOnlyWhenOutdated ==
    /\ Count("GET") <= 1
    /\ Count("PATCH") <= 1
    /\ Happened("PATCH") =>
          /\ Before("GET_OK", "PATCH")
          /\ Before("INSPECTED", "PATCH")
          /\ Before("RECONCILED", "PATCH")
          /\ updated_info # EmptyDict
    /\ Happened("RECONCILED") /\ updated_info = EmptyDict =>
          ~Happened("PATCH_CALL") /\ ~Happened("CREDENTIALS") /\ ~Happened("PATCH")

\* C3 witness: a call that issued its PATCH, and it was accepted.
C3_Witness == Happened("PATCH_OK") /\ Count("GET") = 1 /\ Count("PATCH") = 1

\* The recipe attribute a field of the payload is taken from.
SourceAttr(field) ==
    CASE field = "desc" -> "description"
      [] field = "labels" -> "topics"
      [] field = "licenses" -> "license"
      [] field = "website_url" -> "homepage"
      [] field = "vcs_url" -> "url"
      [] field = "issue_tracker_url" -> "url"
\* The value of a field as the recipe gives it.
FromRecipe(field) ==
    LET mine == recipe_info[SourceAttr(field)]
    IN CASE field = "licenses" -> IF mine.t = "str" THEN List(<<mine>>) ELSE mine
         [] field = "issue_tracker_url" -> DefaultIssueTracker(mine)
         [] OTHER -> mine
TakenFromRecipe(field) ==
    /\ Truthy(recipe_info[SourceAttr(field)])
    /\ ret.val[field] = FromRecipe(field)
    /\ ~PyEq(ret.val[field], remote_info[field])

\* C4 as stated: every key of the payload other than vcs_url and maturity
\* carries a value from a non-empty recipe attribute that differs from the
\* remote's, and no field with an absent or empty source attribute is staged.
C4_OnlyRecipeFields ==
    Reconciled => \A field \in DOMAIN ret.val \ {"vcs_url", "maturity"} : TakenFromRecipe(field)

\* C4 amended: the same for every key other than vcs_url, maturity and
\* issue_tracker_url; issue_tracker_url carries the value of
\* BINTRAY_ISSUE_TRACKER_URL when that variable is set, whatever the recipe
\* declares, and otherwise the value derived from a non-empty recipe url,
\* and that value is non-empty and differs from the remote's.
C4_OnlyRecipeFieldsOrOverride ==
    Reconciled =>
        /\ \A field \in DOMAIN ret.val \ {"vcs_url", "maturity", "issue_tracker_url"} :
              TakenFromRecipe(field)
        /\ "issue_tracker_url" \in DOMAIN ret.val =>
              /\ IF IsSet(<<"BINTRAY_ISSUE_TRACKER_URL">>)
                 THEN ret.val["issue_tracker_url"] = env[<<"BINTRAY_ISSUE_TRACKER_URL">>]
                 ELSE /\ Truthy(recipe_info["url"])
                      /\ ret.val["issue_tracker_url"] = FromRecipe("issue_tracker_url")
              /\ Truthy(ret.val["issue_tracker_url"])
              /\ ~PyEq(ret.val["issue_tracker_url"], remote_info["issue_tracker_url"])

\* C4 witness: a payload with every field that is compared, all from the recipe.
C4_Witness ==
    /\ Reconciled
    /\ {"desc", "labels", "licenses", "issue_tracker_url", "website_url"} \subseteq DOMAIN ret.val
    /\ ~IsSet(<<"BINTRAY_ISSUE_TRACKER_URL">>)

\* The licenses of a recipe value and of a remote value, as sets of names.
LicenseSet(x) == IF x.t = "str" THEN {x} ELSE {x.v[i] : i \in 1..Len(x.v)}
IsLicenseValue(x) == x.t \in {"str", "list", "tuple"}
LicensesDecided ==
    IF LicenseSet(recipe_info["license"]) \cap LicenseSet(remote_info["licenses"]) # {}
    THEN "licenses" \notin DOMAIN ret.val
    ELSE /\ "licenses" \in DOMAIN ret.val
         /\ ret.val["licenses"] = IF recipe_info["license"].t = "str"
                                  THEN List(<<recipe_info["license"]>>)
                                  ELSE recipe_info["license"]

\* C5 as stated: for every license value of the recipe, a string or a
\* sequence of strings, licenses is staged exactly when the recipe's and the
\* remote's licenses share no element, and the staged value is the recipe's
\* licenses as a sequence.
C5_LicensesByOverlap ==
    Reconciled /\ IsLicenseValue(recipe_info["license"]) /\ remote_info["licenses"].t = "list"
        => LicensesDecided

\* C5 amended: that holds for every non-empty license value of the recipe;
\* an empty string, an empty sequence or an absent license is never staged.
C5_LicensesByOverlapWhenDeclared ==
    Reconciled =>
        IF Truthy(recipe_info["license"]) THEN LicensesDecided
        ELSE "licenses" \notin DOMAIN ret.val

\* C5 witness: a single string with no overlap, staged as a one-element sequence.
C5_Witness ==
    /\ Reconciled
    /\ recipe_info["license"] = Str(<<"M","I","T">>)
    /\ remote_info["licenses"] = List(<<Str(<<"M">>)>>)
    /\ "licenses" \in DOMAIN ret.val
    /\ ret.val["licenses"] = List(<<Str(<<"M","I","T">>)>>)

\* C6 as stated: without CONAN_STABLE_BRANCH_PATTERN a branch is stable
\* exactly when it is present and its name starts with "master", "release"
\* or "stable".
Named(prefixes) == branch.t = "str" /\ \E p \in prefixes : StartsWith(branch.v, p)
C6_StableByPrefix ==
    Returned("_is_stable_branch") /\ ~IsSet(<<"CONAN_STABLE_BRANCH_PATTERN">>) =>
        /\ ~Raised(ret)
        /\ ret.val <=> Named({B_master, B_rel, B_stable})

\* C6 amended: without CONAN_STABLE_BRANCH_PATTERN a branch is stable exactly
\* when it is present and its name is "master" (a newline may end it) or
\* starts with "releas" or "stabl"; so "master", "release-2.0", "stable" and
\* "releaseX-foo" are stable, and "develop" and an absent branch are not.
C6_StableByPattern ==
    Returned("_is_stable_branch") /\ ~IsSet(<<"CONAN_STABLE_BRANCH_PATTERN">>) =>
        /\ ~Raised(ret)
        /\ ret.val <=> \/ branch \in {Str(B_master), Str(B_master \o <<"\n">>)}
                       \/ Named({B_releas, B_stabl})
        /\ branch \in {Str(B_master), Str(B_release2), Str(B_stable), Str(B_releaseX)} => ret.val
        /\ branch \in {Str(B_develop), None} => ~ret.val

\* C6 witness: "releaseX-foo" classified under the default patterns.
C6_Witness ==
    /\ Returned("_is_stable_branch") /\ ~IsSet(<<"CONAN_STABLE_BRANCH_PATTERN">>)
    /\ branch = Str(B_releaseX) /\ ~Raised(ret) /\ ret.val

\* C7: with a URL that does not match, _extract_user_repo fails with a
\* ValueError whose message names the remote; with one that matches it
\* returns the owner and the repository captured.
C7_NamesTheRemote ==
    Returned("_extract_user_repo") =>
        IF UrlMatch(remote.url).ok
        THEN ret = Ok(<<UrlMatch(remote.url).g1, UrlMatch(remote.url).g2>>)
        ELSE /\ ret.exc.cls = "ValueError"
             /\ \E i \in 1..Len(ret.exc.msg.args) : ret.exc.msg.args[i] = remote.name

\* C8: _get_credentials fails exactly when no username variable or no
\* password variable is non-empty, and otherwise returns the first non-empty
\* username and the remote's password if non-empty, else the generic one.
ScopedTo(prefix) == <<prefix>> \o Upper(remote.name)
C8_CredentialsByNonEmpty ==
    Returned("_get_credentials") =>
        LET users == <<ScopedTo("BINTRAY_LOGIN_USERNAME_"), <<"BINTRAY_LOGIN_USERNAME">>,
                       <<"BINTRAY_USERNAME">> >>
            passwords == <<ScopedTo("BINTRAY_PASSWORD_"), <<"BINTRAY_PASSWORD">> >>
            first(vs) == vs[CHOOSE i \in 1..Len(vs) :
                              NonEmpty(vs[i]) /\ \A j \in 1..(i - 1) : ~NonEmpty(vs[j])]
            some(vs) == \E i \in 1..Len(vs) : NonEmpty(vs[i])
        IN IF some(users) /\ some(passwords)
           THEN ret = Ok(<<env[first(users)], env[first(passwords)]>>)
           ELSE Raised(ret)

\* The URL without its last path segment: what precedes its last "/".
HasSlash(u) == \E i \in 1..Len(u) : u[i] = "/"
WithoutLastSegment(u) ==
    IF ~HasSlash(u) THEN <<>>
    ELSE SubSeq(u, 1, (CHOOSE i \in 1..Len(u) :
                          u[i] = "/" /\ \A j \in (i + 1)..Len(u) : u[j] # "/") - 1)
EffectiveIssueTracker ==
    IF IsSet(<<"BINTRAY_ISSUE_TRACKER_URL">>) THEN env[<<"BINTRAY_ISSUE_TRACKER_URL">>]
    ELSE IF Truthy(recipe_info["url"])
         THEN Str(WithoutLastSegment(recipe_info["url"].v) \o S_community)
         ELSE Str(<<>>)

\* C9: the effective issue tracker is BINTRAY_ISSUE_TRACKER_URL when set,
\* else the recipe URL without its last path segment followed by
\* "/community/issues", else empty; issue_tracker_url is staged, with that
\* value, exactly when it is non-empty and differs from the remote's.
C9_IssueTracker ==
    Reconciled =>
        /\ "issue_tracker_url" \in DOMAIN ret.val <=>
              /\ Truthy(EffectiveIssueTracker)
              /\ ~PyEq(EffectiveIssueTracker, remote_info["issue_tracker_url"])
        /\ "issue_tracker_url" \in DOMAIN ret.val =>
              ret.val["issue_tracker_url"] = EffectiveIssueTracker

\* The hook's side of C10: what a call with a recipe URL does.
Uploaded == calls > 0 /\ pc \in {"done", "idle"}
RecipeHasUrl == conanfile.ok /\ Truthy(conanfile.info["url"])
ConvergesButVcsUrl == pc = "u3" => ~Raised(ret) /\ DOMAIN ret.val \subseteq {"vcs_url"}

=============================================================================
